---- MODULE Spec2Model ----
\* captchaAPI: the captcha record lifecycle of app/views.py (api_captcha, get_img,
\* check_solution) over the two record tables and the issue counter, as a state
\* machine.  Strings are sequences of character codes; an optional value (Python's
\* None or a value) is the empty sequence or a one-element sequence.
EXTENDS Integers, Sequences, FiniteSets, TLC

\* ---------------------------------------------------------------- bounds

\* Issue calls are started only while captcha_count is below this.
MaxIssues == 2
\* With one challenge, its handles receive at most their limit plus this many
\* calls of their endpoint.
ExtraCalls == 2
\* With several challenges or interleaved handlers, likewise.
FewExtraCalls == 1
\* Request handlers that may run at the same time.
NumThreads == 2
\* With handlers interleaved, at most this many requests are accepted in all.
MaxRequests == 4
\* The limits of the Issue-only specification range over -1 .. MaxParam.
MaxParam == 21
\* the width of the one-row images salt_and_pepper is given
ImageWidth == 2
\* the largest max_solution_check of the challenges of SpecVerify
MaxVerifyLimit == 4

Threads == 1 .. NumThreads

\* ---------------------------------------------------------------- values

None == << >>
Some(x) == << x >>

\* dict.get(key, default) on a dict modelled as a function
Get(d, k, default) == IF k \in DOMAIN d THEN d[k] ELSE default

\* the character codes of a decimal digit and of "."
Digit(d) == 48 + d
Dot == 46

RECURSIVE StrInt(_)
\* str(n) of a non-negative integer, as the f-string formats captcha_count
StrInt(n) == IF n < 10 THEN << Digit(n) >> ELSE StrInt(n \div 10) \o << Digit(n % 10) >>

\* the letters of IdAlphabet and "l": a string of 50 characters
IdAlphabetWithL ==
    [i \in 1 .. 26 |-> 96 + i]
        \o [i \in 1 .. 8 |-> 64 + i] \o << 74, 75 >> \o [i \in 1 .. 14 |-> 76 + i]

\* the sequence string of _id_generator:
\* "abcdefghijkmnopqrstuvwxyzABCDEFGHJKMNOPQRSTUVWXYZ"
IdAlphabet ==
    [i \in 1 .. 11 |-> 96 + i] \o [i \in 1 .. 14 |-> 108 + i]
        \o [i \in 1 .. 8 |-> 64 + i] \o << 74, 75 >> \o [i \in 1 .. 14 |-> 76 + i]

\* _id_generator(y): draws[i] is the index secrets.choice picks for character i
IdGenerator(y, draws) == [i \in 1 .. y |-> IdAlphabet[draws[i]]]

\* str.lower() on the codes of ASCII letters
LowerChar(c) == IF c >= 65 /\ c <= 90 THEN c + 32 ELSE c
Lower(s) == [i \in 1 .. Len(s) |-> LowerChar(s[i])]

\* the base64 alphabet: the code of sextet v, and the padding character "="
B64Char(v) ==
    IF v < 26 THEN 65 + v
    ELSE IF v < 52 THEN 97 + (v - 26)
    ELSE IF v < 62 THEN 48 + (v - 52)
    ELSE IF v = 62 THEN 43 ELSE 47
B64Pad == 61

\* one group of up to three bytes to four base64 characters
B64Group(g) ==
    LET b1 == g[1]
        b2 == IF Len(g) >= 2 THEN g[2] ELSE 0
        b3 == IF Len(g) >= 3 THEN g[3] ELSE 0
        n == b1 * 65536 + b2 * 256 + b3
    IN << B64Char(n \div 262144),
          B64Char((n \div 4096) % 64),
          IF Len(g) >= 2 THEN B64Char((n \div 64) % 64) ELSE B64Pad,
          IF Len(g) >= 3 THEN B64Char(n % 64) ELSE B64Pad >>

RECURSIVE B64Encode(_)
\* base64.b64encode(bytes).decode()
B64Encode(bytes) ==
    IF Len(bytes) = 0 THEN << >>
    ELSE IF Len(bytes) <= 3 THEN B64Group(bytes)
    ELSE B64Group(SubSeq(bytes, 1, 3)) \o B64Encode(SubSeq(bytes, 4, Len(bytes)))

\* now.strftime("%S"): the second of the minute of clock reading t, two digits
StrftimeS(t) == << Digit((t % 60) \div 10), Digit((t % 60) % 10) >>

\* s[-5:]
Last5(s) == IF Len(s) <= 5 THEN s ELSE SubSeq(s, Len(s) - 4, Len(s))

\* _b64_encrypt_id(): count is flask_app.captcha_count as read by the call, draws
\* the ten choices of _id_generator(y=10), t the clock reading of utcnow()
B64EncryptId(count, draws, t) ==
    B64Encode(StrInt(count) \o << Dot >> \o IdGenerator(10, draws) \o << Dot >>
                \o Last5(StrftimeS(t)))

\* ---------------------------------------------------------------- state

VARIABLES
    captcha_cdn,        \* flask_app.captcha_cdn: cdn_id -> image record
    captchas_solution,  \* flask_app.captchas_solution: solution_id -> solution record
    captcha_count,      \* flask_app.captcha_count
    oids,               \* record dicts allocated so far (a dict's identity)
    renders,            \* cdn_id -> cap_gen calls made for it (each renders afresh)
    frames,             \* per thread: the handler it runs, its position and locals
    cdnHist,            \* history, per issued cdn_id: limit, calls, successes
    solHist,            \* history, per issued solution_id: limit, calls, comparisons
    issueHist,          \* history: the last api_captcha call, its inputs and response
    accepted,           \* history: requests accepted while handlers interleave
    noise               \* a salt_and_pepper call: its arguments, its draws, its result

vars == << captcha_cdn, captchas_solution, captcha_count, oids, renders, frames,
           cdnHist, solHist, issueHist, accepted, noise >>

\* the outcomes of the random draws and clock readings of one api_captcha call
NoRnd == [id1 |-> << >>, t1 |-> 0, sol |-> << >>, now |-> 0, id2 |-> << >>, t2 |-> 0]

\* a response: the status code, the "text" of an error body, and the payload
NoResp ==
    [code |-> 0, text |-> "", image |-> None, solution_id |-> << >>, cdn_id |-> << >>,
     case_sensitive_correct |-> FALSE, case_insensitive_correct |-> FALSE]

ErrorResp(code, text) == [NoResp EXCEPT !.code = code, !.text = text]

\* Flask's answer to an exception the handler does not catch
Unhandled == ErrorResp(500, "Internal Server Error")

\* a thread that runs no handler
IdleFrame ==
    [pc |-> "idle", op |-> "none", key |-> << >>, json |-> None, rnd |-> NoRnd,
     tmp |-> 0, ref |-> 0, solution_id |-> << >>, pil_image |-> None,
     cdn_access |-> 0, solution_check |-> 0, solution |-> << >>, cdn_id |-> << >>,
     resp |-> NoResp]

\* the program state a handler step reads and writes, with the running thread's frame
Bundle(t) ==
    [cdn |-> captcha_cdn, sol |-> captchas_solution, count |-> captcha_count,
     oids |-> oids, renders |-> renders, fr |-> frames[t]]

Goto(s, pc) == [s EXCEPT !.fr.pc = pc]

\* the handler returns resp: its locals are dropped
Return(s, resp) ==
    [s EXCEPT !.fr = [IdleFrame EXCEPT !.pc = "done", !.op = s.fr.op,
                                       !.key = s.fr.key, !.resp = resp]]

\* del d[k]
Del(d, k) == [x \in DOMAIN d \ {k} |-> d[x]]

\* d[k] = v
Put(d, k, v) == [x \in DOMAIN d \cup {k} |-> IF x = k THEN v ELSE d[x]]

\* ---------------------------------------------------------------- get_img

\* the except KeyError branch of get_img
CdnKeyNotFound == ErrorResp(400, "cdn key not found")

CdnExhausted == ErrorResp(418, "captcha CDN accessed too many times, now expired & deleted")

\* cap_gen(text): the image the n-th rendering of a challenge's text gives (the
\* parameters of a rendering are random: no two renderings give the same image)
CapGen(text, n) == [text |-> text, render |-> n]

\* send_file(output, mimetype="image/png") of the PNG of pil_image
SendFile(pil_image) == [NoResp EXCEPT !.code = 200, !.image = Some(pil_image)]

\* line 63: flask_app.captcha_cdn[key]["cdn_accessed_number"]
GetImg63(s) ==
    IF s.fr.key \notin DOMAIN s.cdn THEN Return(s, CdnKeyNotFound)
    ELSE [s EXCEPT !.fr.tmp = s.cdn[s.fr.key].cdn_accessed_number, !.fr.pc = "g64"]

\* GetImg64 with the limit compared by > : one access too many is served
GetImg64Late(s) ==
    IF s.fr.key \notin DOMAIN s.cdn THEN Return(s, CdnKeyNotFound)
    ELSE IF s.fr.tmp > s.cdn[s.fr.key].max_cdn_access THEN Goto(s, "g66")
    ELSE Goto(s, "g80")

\* lines 62-65: ... >= flask_app.captcha_cdn[key]["max_cdn_access"]
GetImg64(s) ==
    IF s.fr.key \notin DOMAIN s.cdn THEN Return(s, CdnKeyNotFound)
    ELSE IF s.fr.tmp >= s.cdn[s.fr.key].max_cdn_access THEN Goto(s, "g66")
    ELSE Goto(s, "g80")

\* line 66, the subscript: flask_app.captcha_cdn[key]["solution_id"]
GetImg66(s) ==
    IF s.fr.key \notin DOMAIN s.cdn THEN Return(s, CdnKeyNotFound)
    ELSE [s EXCEPT !.fr.solution_id = s.cdn[s.fr.key].solution_id, !.fr.pc = "g66d"]

\* line 66: del flask_app.captchas_solution[...]
GetImg66d(s) ==
    IF s.fr.solution_id \notin DOMAIN s.sol THEN Return(s, CdnKeyNotFound)
    ELSE [s EXCEPT !.sol = Del(s.sol, s.fr.solution_id), !.fr.pc = "g67"]

\* lines 67-78: del flask_app.captcha_cdn[key]; return 418
GetImg67(s) ==
    IF s.fr.key \notin DOMAIN s.cdn THEN Return(s, CdnKeyNotFound)
    ELSE Return([s EXCEPT !.cdn = Del(s.cdn, s.fr.key)], CdnExhausted)

\* line 80, the load of += : the record dict and its cdn_accessed_number
GetImg80(s) ==
    IF s.fr.key \notin DOMAIN s.cdn THEN Return(s, CdnKeyNotFound)
    ELSE [s EXCEPT !.fr.ref = s.cdn[s.fr.key].oid,
                   !.fr.tmp = s.cdn[s.fr.key].cdn_accessed_number,
                   !.fr.pc = "g80w"]

\* GetImg80w with the count advanced by two
GetImg80wTwice(s) ==
    IF s.fr.key \in DOMAIN s.cdn /\ s.cdn[s.fr.key].oid = s.fr.ref
    THEN [s EXCEPT !.cdn[s.fr.key].cdn_accessed_number = s.fr.tmp + 2,
                   !.fr.pc = "g82"]
    ELSE Goto(s, "g82")

\* line 80, the store of += into the dict loaded (no table holds it once deleted)
GetImg80w(s) ==
    IF s.fr.key \in DOMAIN s.cdn /\ s.cdn[s.fr.key].oid = s.fr.ref
    THEN [s EXCEPT !.cdn[s.fr.key].cdn_accessed_number = s.fr.tmp + 1,
                   !.fr.pc = "g82"]
    ELSE Goto(s, "g82")

\* GetImg82 with the memoized image ignored: every call renders
GetImg82Always(s) ==
    IF s.fr.key \notin DOMAIN s.cdn THEN Return(s, CdnKeyNotFound) ELSE Goto(s, "g83")

\* line 82: if not flask_app.captcha_cdn[key]["image"]
GetImg82(s) ==
    IF s.fr.key \notin DOMAIN s.cdn THEN Return(s, CdnKeyNotFound)
    ELSE IF s.cdn[s.fr.key].image = None THEN Goto(s, "g83")
    ELSE Goto(s, "g86")

\* line 83: pil_image = cap_gen(text=flask_app.captcha_cdn[key]["solution"])
GetImg83(s) ==
    IF s.fr.key \notin DOMAIN s.cdn THEN Return(s, CdnKeyNotFound)
    ELSE [s EXCEPT !.fr.pil_image =
                       Some(CapGen(s.cdn[s.fr.key].solution,
                                   Get(s.renders, s.fr.key, 0) + 1)),
                   !.renders = Put(s.renders, s.fr.key, Get(s.renders, s.fr.key, 0) + 1),
                   !.fr.pc = "g84"]

\* lines 84, 88-92: flask_app.captcha_cdn[key]["image"] = pil_image; send it
GetImg84(s) ==
    IF s.fr.key \notin DOMAIN s.cdn THEN Return(s, CdnKeyNotFound)
    ELSE Return([s EXCEPT !.cdn[s.fr.key].image = s.fr.pil_image],
                SendFile(s.fr.pil_image[1]))

\* lines 86, 88-92: pil_image = flask_app.captcha_cdn[key]["image"]; send it
\* (None.convert raises AttributeError, which get_img does not catch)
GetImg86(s) ==
    IF s.fr.key \notin DOMAIN s.cdn THEN Return(s, CdnKeyNotFound)
    ELSE IF s.cdn[s.fr.key].image = None THEN Return(s, Unhandled)
    ELSE Return(s, SendFile(s.cdn[s.fr.key].image[1]))

\* one step of get_img(key) from position s.fr.pc
GetImgStep(s) ==
    CASE s.fr.pc = "g63" -> GetImg63(s)
      [] s.fr.pc = "g64" -> GetImg64(s)
      [] s.fr.pc = "g66" -> GetImg66(s)
      [] s.fr.pc = "g66d" -> GetImg66d(s)
      [] s.fr.pc = "g67" -> GetImg67(s)
      [] s.fr.pc = "g80" -> GetImg80(s)
      [] s.fr.pc = "g80w" -> GetImg80w(s)
      [] s.fr.pc = "g82" -> GetImg82(s)
      [] s.fr.pc = "g83" -> GetImg83(s)
      [] s.fr.pc = "g84" -> GetImg84(s)
      [] s.fr.pc = "g86" -> GetImg86(s)

\* ---------------------------------------------------------------- api_captcha

\* timedelta(minutes=5), in seconds
Delta == 300

MaxCdnAccessError == ErrorResp(400, "maxCdnAccess is over 20. default is 5 max is 20, min is 1")

MaxSolutionCheckError ==
    ErrorResp(400, "maxSolutionCheck is over 20. default is 5 max is 20, min is 1")

\* ApiCaptcha116 with the image limit compared by > 20: a limit of 20 is accepted
ApiCaptcha116Late(s) ==
    LET data == IF s.fr.json = None THEN << >> ELSE s.fr.json[1]
        cdn_access == Get(data, "maxCdnAccess", 5)
        solution_check == Get(data, "maxSolutionCheck", 5)
    IN IF cdn_access > 20 \/ cdn_access <= 0 THEN Return(s, MaxCdnAccessError)
       ELSE IF solution_check >= 20 \/ solution_check <= 0
       THEN Return(s, MaxSolutionCheckError)
       ELSE [s EXCEPT !.fr.cdn_access = cdn_access,
                      !.fr.solution_check = solution_check,
                      !.fr.pc = "a144"]

\* lines 116-142: the limits of the request body, validated
ApiCaptcha116(s) ==
    LET data == IF s.fr.json = None THEN << >> ELSE s.fr.json[1]
        cdn_access == Get(data, "maxCdnAccess", 5)
        solution_check == Get(data, "maxSolutionCheck", 5)
    IN IF cdn_access >= 20 \/ cdn_access <= 0 THEN Return(s, MaxCdnAccessError)
       ELSE IF solution_check >= 20 \/ solution_check <= 0
       THEN Return(s, MaxSolutionCheckError)
       ELSE [s EXCEPT !.fr.cdn_access = cdn_access,
                      !.fr.solution_check = solution_check,
                      !.fr.pc = "a144"]

\* lines 144-145: solution_id = _b64_encrypt_id(); solution = _id_generator(...)
ApiCaptcha144(s) ==
    [s EXCEPT !.fr.solution_id = B64EncryptId(s.count, s.fr.rnd.id1, s.fr.rnd.t1),
              !.fr.solution = IdGenerator(Len(s.fr.rnd.sol), s.fr.rnd.sol),
              !.fr.pc = "a146"]

\* lines 146-150: flask_app.captchas_solution[solution_id] = {...}
ApiCaptcha146(s) ==
    [s EXCEPT !.sol = Put(s.sol, s.fr.solution_id,
                          [solution |-> s.fr.solution,
                           max_solution_check |-> s.fr.solution_check,
                           solution_checked |-> 0,
                           oid |-> s.oids + 1]),
              !.oids = s.oids + 1,
              !.fr.pc = "a154"]

\* lines 152-154: delta, now; cdn_id = _b64_encrypt_id()
ApiCaptcha154(s) ==
    [s EXCEPT !.fr.cdn_id = B64EncryptId(s.count, s.fr.rnd.id2, s.fr.rnd.t2),
              !.fr.pc = "a155"]

\* ApiCaptcha155 with the solution limit stored as the image limit
ApiCaptcha155Swapped(s) ==
    [s EXCEPT !.cdn = Put(s.cdn, s.fr.cdn_id,
                          [solution |-> s.fr.solution,
                           image |-> None,
                           time |-> s.fr.rnd.now + Delta,
                           cdn_accessed_number |-> 0,
                           max_cdn_access |-> s.fr.solution_check,
                           solution_id |-> s.fr.solution_id,
                           oid |-> s.oids + 1]),
              !.oids = s.oids + 1,
              !.fr.pc = "a163"]

\* lines 155-162: flask_app.captcha_cdn[cdn_id] = {...}
ApiCaptcha155(s) ==
    [s EXCEPT !.cdn = Put(s.cdn, s.fr.cdn_id,
                          [solution |-> s.fr.solution,
                           image |-> None,
                           time |-> s.fr.rnd.now + Delta,
                           cdn_accessed_number |-> 0,
                           max_cdn_access |-> s.fr.cdn_access,
                           solution_id |-> s.fr.solution_id,
                           oid |-> s.oids + 1]),
              !.oids = s.oids + 1,
              !.fr.pc = "a163"]

\* line 163, the load of flask_app.captcha_count += 1
ApiCaptcha163(s) == [s EXCEPT !.fr.tmp = s.count, !.fr.pc = "a163w"]

\* lines 163-174: the store of += ; the two handles are returned
ApiCaptcha163w(s) ==
    Return([s EXCEPT !.count = s.fr.tmp + 1],
           [NoResp EXCEPT !.code = 200, !.solution_id = s.fr.solution_id,
                          !.cdn_id = s.fr.cdn_id])

\* one step of api_captcha() from position s.fr.pc
ApiCaptchaStep(s) ==
    CASE s.fr.pc = "a116" -> ApiCaptcha116(s)
      [] s.fr.pc = "a144" -> ApiCaptcha144(s)
      [] s.fr.pc = "a146" -> ApiCaptcha146(s)
      [] s.fr.pc = "a154" -> ApiCaptcha154(s)
      [] s.fr.pc = "a155" -> ApiCaptcha155(s)
      [] s.fr.pc = "a163" -> ApiCaptcha163(s)
      [] s.fr.pc = "a163w" -> ApiCaptcha163w(s)

\* ---------------------------------------------------------------- check_solution

SolutionNotFound == ErrorResp(400, "solution_id not found")

SolutionExhausted ==
    ErrorResp(418, "this route has been accessed too many times. records now expired & deleted")

AttemptNotFound == ErrorResp(400, "attempt not found in HTTP json")

\* lines 180-181: if solution_id not in flask_app.captchas_solution
CheckSolution180(s) ==
    IF s.fr.key \notin DOMAIN s.sol THEN Return(s, SolutionNotFound)
    ELSE Goto(s, "c184")

\* line 184: flask_app.captchas_solution[solution_id]["solution_checked"]
CheckSolution184(s) ==
    IF s.fr.key \notin DOMAIN s.sol THEN Return(s, Unhandled)
    ELSE [s EXCEPT !.fr.tmp = s.sol[s.fr.key].solution_checked, !.fr.pc = "c185"]

\* CheckSolution185 with the limit compared by > : one check too many is made
CheckSolution185Late(s) ==
    IF s.fr.key \notin DOMAIN s.sol THEN Return(s, Unhandled)
    ELSE IF s.fr.tmp > s.sol[s.fr.key].max_solution_check THEN Goto(s, "c188")
    ELSE Goto(s, "c201")

\* lines 183-186: ... >= flask_app.captchas_solution[solution_id]["max_solution_check"]
CheckSolution185(s) ==
    IF s.fr.key \notin DOMAIN s.sol THEN Return(s, Unhandled)
    ELSE IF s.fr.tmp >= s.sol[s.fr.key].max_solution_check THEN Goto(s, "c188")
    ELSE Goto(s, "c201")

\* lines 187-199: del flask_app.captchas_solution[solution_id]; return 418
CheckSolution188(s) ==
    IF s.fr.key \notin DOMAIN s.sol THEN Return(s, Unhandled)
    ELSE Return([s EXCEPT !.sol = Del(s.sol, s.fr.key)], SolutionExhausted)

\* line 201, the load of += : the record dict and its solution_checked
CheckSolution201(s) ==
    IF s.fr.key \notin DOMAIN s.sol THEN Return(s, Unhandled)
    ELSE [s EXCEPT !.fr.ref = s.sol[s.fr.key].oid,
                   !.fr.tmp = s.sol[s.fr.key].solution_checked,
                   !.fr.pc = "c201w"]

\* CheckSolution201w with nothing stored: the call is not counted
CheckSolution201wSkip(s) == Goto(s, "c203")

\* line 201, the store of += into the dict loaded
CheckSolution201w(s) ==
    IF s.fr.key \in DOMAIN s.sol /\ s.sol[s.fr.key].oid = s.fr.ref
    THEN [s EXCEPT !.sol[s.fr.key].solution_checked = s.fr.tmp + 1, !.fr.pc = "c203"]
    ELSE Goto(s, "c203")

\* CheckSolution203 with the stored solution compared as it is in the second test
CheckSolution203Unfolded(s) ==
    LET rq_data == s.fr.json[1]
        attempt == Get(rq_data, "attempt", None)
        captcha_data == IF s.fr.key \in DOMAIN s.sol THEN Some(s.sol[s.fr.key]) ELSE None
    IN IF attempt = None \/ attempt = Some(<< >>) THEN Return(s, AttemptNotFound)
       ELSE IF captcha_data = None THEN Return(s, Unhandled)
       ELSE Return(s,
                [NoResp EXCEPT
                    !.code = 200,
                    !.case_sensitive_correct = (attempt[1] = captcha_data[1].solution),
                    !.case_insensitive_correct =
                        (Lower(attempt[1]) = captcha_data[1].solution)])

\* lines 203-222: the attempt of the request body against the stored solution
\* (captcha_data is None when the record is gone: subscripting it raises TypeError)
CheckSolution203(s) ==
    LET rq_data == s.fr.json[1]
        attempt == Get(rq_data, "attempt", None)
        captcha_data == IF s.fr.key \in DOMAIN s.sol THEN Some(s.sol[s.fr.key]) ELSE None
    IN IF attempt = None \/ attempt = Some(<< >>) THEN Return(s, AttemptNotFound)
       ELSE IF captcha_data = None THEN Return(s, Unhandled)
       ELSE Return(s,
                [NoResp EXCEPT
                    !.code = 200,
                    !.case_sensitive_correct = (attempt[1] = captcha_data[1].solution),
                    !.case_insensitive_correct =
                        (Lower(attempt[1]) = Lower(captcha_data[1].solution))])

\* one step of check_solution(solution_id) from position s.fr.pc
CheckSolutionStep(s) ==
    CASE s.fr.pc = "c180" -> CheckSolution180(s)
      [] s.fr.pc = "c184" -> CheckSolution184(s)
      [] s.fr.pc = "c185" -> CheckSolution185(s)
      [] s.fr.pc = "c188" -> CheckSolution188(s)
      [] s.fr.pc = "c201" -> CheckSolution201(s)
      [] s.fr.pc = "c201w" -> CheckSolution201w(s)
      [] s.fr.pc = "c203" -> CheckSolution203(s)

\* ---------------------------------------------------------------- salt_and_pepper

\* fill=(255, 255, 255)
White == << 255, 255, 255 >>

\* the values secrets.choice picks from, (0, 0.1, ..., 1), in hundredths
NoiseChoices == {10 * i : i \in 0 .. 10}

\* the coordinates (x, y) of an image of one row
Pixels == {<< x, 0 >> : x \in 0 .. ImageWidth - 1}

\* salt_and_pepper(image, probability): the image is a function of the coordinates,
\* the probability is in hundredths, draws[xy] is the value secrets.choice picks
\* for pixel xy
SaltAndPepper(image, probability, draws) ==
    [xy \in DOMAIN image |-> IF draws[xy] < probability THEN White ELSE image[xy]]

\* no salt_and_pepper call
NoNoise == [image |-> << >>, probability |-> 0, draws |-> << >>, output_image |-> None]

\* ---------------------------------------------------------------- handlers

\* one step of the handler the thread of s runs
HandlerStep(s) ==
    CASE s.fr.op = "get_img" -> GetImgStep(s)
      [] s.fr.op = "api_captcha" -> ApiCaptchaStep(s)
      [] s.fr.op = "check_solution" -> CheckSolutionStep(s)

RECURSIVE RunHandler(_)
\* the handler of s run from its position to its return, with no other thread running
RunHandler(s) == IF s.fr.pc = "done" THEN s ELSE RunHandler(HandlerStep(s))

\* the frame of a request as its handler is entered
GetImgFrame(key) == [IdleFrame EXCEPT !.pc = "g63", !.op = "get_img", !.key = key]

ApiCaptchaFrame(json, rnd) ==
    [IdleFrame EXCEPT !.pc = "a116", !.op = "api_captcha", !.json = json, !.rnd = rnd]

CheckSolutionFrame(solution_id, json) ==
    [IdleFrame EXCEPT !.pc = "c180", !.op = "check_solution", !.key = solution_id,
                      !.json = json]

\* ---------------------------------------------------------------- history

\* the records the step s0 -> s1 inserted into a table
Inserted(d0, d1) == {k \in DOMAIN d1 : k \notin DOMAIN d0 \/ d0[k].oid # d1[k].oid}

\* the history of a record just inserted: no call of its endpoint has returned
NewHistory(record) ==
    [record |-> record, calls |-> 0, ok |-> 0, exhausted |-> 0, notfound |-> 0,
     invalid |-> 0, unhandled |-> 0, deleted_by |-> "none"]

\* a history with one more call, which returned resp
Tally(h, resp) ==
    [h EXCEPT !.calls = @ + 1,
              !.ok = IF resp.code = 200 THEN @ + 1 ELSE @,
              !.exhausted = IF resp.code = 418 THEN @ + 1 ELSE @,
              !.notfound = IF resp \in {CdnKeyNotFound, SolutionNotFound} THEN @ + 1 ELSE @,
              !.invalid = IF resp = AttemptNotFound THEN @ + 1 ELSE @,
              !.unhandled = IF resp.code = 500 THEN @ + 1 ELSE @]

\* the history h of table d0 after the step s0 -> s1 made it d1: a record inserted
\* starts a history, a record deleted notes the handler that deleted it, and a call
\* of handler op that returns is tallied under its key
History(h, d0, d1, s0, s1, op) ==
    LET new == Inserted(d0, d1)
        gone == DOMAIN d0 \ DOMAIN d1
        h1 == [k \in DOMAIN h \cup new |->
                 IF k \in new THEN NewHistory(d1[k])
                 ELSE IF k \in gone THEN [h[k] EXCEPT !.deleted_by = s0.fr.op]
                 ELSE h[k]]
        k == s1.fr.key
    IN IF s1.fr.pc = "done" /\ s1.fr.op = op /\ k \in DOMAIN h1
       THEN [h1 EXCEPT ![k] = Tally(@, s1.fr.resp)]
       ELSE h1

\* issueHist after the step s0 -> s1: the last api_captcha call that returned
IssueHistory(h, s0, s1) ==
    IF s1.fr.pc = "done" /\ s1.fr.op = "api_captcha"
    THEN [json |-> s0.fr.json, rnd |-> s0.fr.rnd, resp |-> s1.fr.resp]
    ELSE h

\* thread t's step s0 -> s1 takes effect; a handler that returned leaves no frame
Commit(t, s0, s1) ==
    /\ captcha_cdn' = s1.cdn
    /\ captchas_solution' = s1.sol
    /\ captcha_count' = s1.count
    /\ oids' = s1.oids
    /\ renders' = s1.renders
    /\ frames' = [frames EXCEPT ![t] = IF s1.fr.pc = "done" THEN IdleFrame ELSE s1.fr]
    /\ cdnHist' = History(cdnHist, s0.cdn, s1.cdn, s0, s1, "get_img")
    /\ solHist' = History(solHist, s0.sol, s1.sol, s0, s1, "check_solution")
    /\ issueHist' = IssueHistory(issueHist, s0, s1)
    /\ UNCHANGED noise

\* ---------------------------------------------------------------- inputs

\* the picks of secrets.choice for a string of y characters: the first character
\* is "a" or "A", the others "a"
IdDraws(y) == {[i \in 1 .. y |-> IF i = 1 THEN d ELSE 1] : d \in {1, 26}}

\* a handle no Issue returned
UnknownKey == << 120 >>

\* the keys a client may present to get_img and to check_solution
CdnKeys == DOMAIN cdnHist \cup {UnknownKey}
SolutionKeys == DOMAIN solHist \cup {UnknownKey}

\* a JSON object with both limit fields
LimitBody(c, s) ==
    Some([f \in {"maxCdnAccess", "maxSolutionCheck"} |->
            IF f = "maxCdnAccess" THEN c ELSE s])

\* a JSON object with one field
OneField(f, v) == Some([x \in {f} |-> v])

\* request bodies of POST /captcha, several challenges: limits of 1
IssueBodies == {LimitBody(1, 1)}

\* request bodies of POST /captcha, interleaved handlers: image limits of 1 and 2
ConcBodies == {LimitBody(1, 1), LimitBody(2, 1)}

\* request bodies of POST /captcha, one challenge: no body (the defaults), one
\* field, the smallest and the largest limits, and bad ones
SingleBodies ==
    {None, OneField("maxCdnAccess", 1), OneField("maxSolutionCheck", 2),
     LimitBody(1, 1), LimitBody(19, 1), LimitBody(2, 19),
     LimitBody(20, 1), LimitBody(1, 0), LimitBody(0 - 1, 20)}

\* of these, the bodies with a limit that is not allowed
BadBodies == {LimitBody(20, 1), LimitBody(1, 0)}

\* limits at and around the ends of the allowed range
EdgeLimits == {0 - 1, 0, 1, 19, 20, MaxParam}

\* request bodies of POST /captcha offered in every state: no body, one field, and
\* every pair of EdgeLimits
EdgeBodies ==
    {None}
        \cup {OneField(f, v) : f \in {"maxCdnAccess", "maxSolutionCheck"}, v \in EdgeLimits}
        \cup {LimitBody(c, s) : c \in EdgeLimits, s \in EdgeLimits}

\* request bodies of POST /captcha, the call alone: no body, one field, and every
\* pair of limits
AllBodies ==
    {None}
        \cup {OneField(f, v) : f \in {"maxCdnAccess", "maxSolutionCheck"},
                               v \in (0 - 1) .. MaxParam}
        \cup {LimitBody(c, s) : c \in (0 - 1) .. MaxParam, s \in (0 - 1) .. MaxParam}

\* the random draws and clock readings of one api_captcha call: the two handles'
\* salts are equal or differ, the solution has four characters, one clock reading
SingleRnds ==
    {[id1 |-> a, t1 |-> 59, sol |-> [i \in 1 .. 4 |-> 1], now |-> 59,
      id2 |-> [i \in 1 .. 10 |-> 1], t2 |-> 59] : a \in IdDraws(10)}

\* of these, the outcome with two different salts
IssueRnds == {r \in SingleRnds : r.id1 # r.id2}

\* the clock readings of one call: the minute may turn between two of them
ClockReadings == {c \in [1 .. 3 -> {59, 60}] : c[1] <= c[2] /\ c[2] <= c[3]}

\* more outcomes: solutions of four and five characters, and the clock
WideRnds ==
    {[id1 |-> a, t1 |-> c[1], sol |-> x, now |-> c[2], id2 |-> b, t2 |-> c[3]] :
        a \in IdDraws(10), b \in IdDraws(10), x \in IdDraws(4) \cup IdDraws(5),
        c \in ClockReadings}

\* request bodies of POST /check, one challenge: an object with or without "attempt"
SingleAttempts ==
    {Some(<< >>)} \cup {OneField("attempt", a) :
                          a \in {Some(<< >>), Some(<< 97, 97, 97, 97 >>),
                                 Some(<< 65, 97, 97, 97 >>), Some(<< 98 >>)}}

\* request bodies of POST /check, several challenges: no attempt, the solution
IssueAttempts == {Some(<< >>), OneField("attempt", Some(<< 97, 97, 97, 97 >>))}

\* attempts: the strings _id_generator may return for four or five draws, and
\* strings of other letters, of capitals only, and of another length
AttemptTexts ==
    {IdGenerator(Len(d), d) : d \in IdDraws(4) \cup IdDraws(5)}
        \cup {<< 98 >>, << 65, 65, 65, 65 >>, << 97, 97, 97 >>, << 98, 97, 97, 97 >>}

\* request bodies of POST /check with one of AttemptTexts, or with no attempt
VerifyBodies ==
    {Some(<< >>)} \cup {OneField("attempt", Some(a)) : a \in AttemptTexts}

\* request bodies of POST /captcha with an image limit of 1
VerifyLimits == {LimitBody(1, c) : c \in 1 .. MaxVerifyLimit}

\* draws of one api_captcha call: two salts that differ, a solution of four or five
\* characters that starts with "a" or "A"
VerifyRnds ==
    {[r EXCEPT !.sol = x] : r \in IssueRnds, x \in IdDraws(4) \cup IdDraws(5)}

\* draws of one api_captcha call: the first character of the solution, of four or
\* five characters, is any character of the sequence string
AlphabetRnds ==
    {[r EXCEPT !.sol = [i \in 1 .. y |-> IF i = 1 THEN d ELSE 1]] :
        r \in SingleRnds, y \in {4, 5}, d \in 1 .. Len(IdAlphabet)}

\* ---------------------------------------------------------------- sequential

Init ==
    /\ captcha_cdn = << >>
    /\ captchas_solution = << >>
    /\ captcha_count = 0
    /\ oids = 0
    /\ renders = << >>
    /\ frames = [t \in Threads |-> IdleFrame]
    /\ cdnHist = << >>
    /\ solHist = << >>
    /\ issueHist = [json |-> None, rnd |-> NoRnd, resp |-> NoResp]
    /\ accepted = 0
    /\ noise = NoNoise

\* no handler is running
Quiet == \A t \in Threads : frames[t].pc \in {"idle", "done"}

\* thread 1 serves the request of frame fr from entry to return
Serve(fr) ==
    /\ Quiet
    /\ \E s0 \in {[Bundle(1) EXCEPT !.fr = fr]} :
         \E s1 \in {RunHandler(s0)} : Commit(1, s0, s1)
    /\ UNCHANGED accepted

\* whether key may receive one more call of its endpoint
MayCall(h, key, limit, extra) ==
    key \in DOMAIN h => h[key].calls < h[key].record[limit] + extra

\* POST /api/v5/captcha
ApiCaptcha ==
    /\ captcha_count < MaxIssues
    /\ \E json \in IssueBodies, rnd \in IssueRnds : Serve(ApiCaptchaFrame(json, rnd))

\* GET /api/v5/cdn/<key>, on a handle that had fewer than limit + extra calls
GetImgOf(extra) ==
    \E key \in CdnKeys :
        /\ MayCall(cdnHist, key, "max_cdn_access", extra)
        /\ Serve(GetImgFrame(key))

\* POST /api/v5/check/<solution_id> with a body of bodies, likewise
CheckSolutionOf(bodies, extra) ==
    \E solution_id \in SolutionKeys, json \in bodies :
        /\ MayCall(solHist, solution_id, "max_solution_check", extra)
        /\ Serve(CheckSolutionFrame(solution_id, json))

GetImg == GetImgOf(FewExtraCalls)

CheckSolution == CheckSolutionOf(IssueAttempts, FewExtraCalls)

Next == ApiCaptcha \/ GetImg \/ CheckSolution

\* requests served one after another, on up to MaxIssues challenges
Spec == Init /\ [][Next]_vars

\* POST /api/v5/captcha: any of SingleBodies while nothing has been issued, a
\* body that is refused afterwards
ApiCaptchaSingle ==
    \E json \in (IF captcha_count = 0 THEN SingleBodies ELSE BadBodies),
       rnd \in SingleRnds : Serve(ApiCaptchaFrame(json, rnd))

GetImgSingle == GetImgOf(ExtraCalls)

CheckSolutionSingle == CheckSolutionOf(SingleAttempts, ExtraCalls)

NextSingle == ApiCaptchaSingle \/ GetImgSingle \/ CheckSolutionSingle

\* the life of one challenge, issued with any of SingleBodies
SpecSingle == Init /\ [][NextSingle]_vars

\* POST /api/v5/captcha, once, with any limits and any draws
ApiCaptchaAlone ==
    /\ issueHist.resp = NoResp
    /\ \E json \in AllBodies, rnd \in WideRnds : Serve(ApiCaptchaFrame(json, rnd))

NextIssue == ApiCaptchaAlone

\* one api_captcha call on the initial state
SpecIssue == Init /\ [][NextIssue]_vars

\* POST /api/v5/captcha, once, with one of VerifyLimits and one of VerifyRnds
ApiCaptchaVerify ==
    /\ captcha_count = 0
    /\ \E json \in VerifyLimits, rnd \in VerifyRnds : Serve(ApiCaptchaFrame(json, rnd))

CheckSolutionVerify == CheckSolutionOf(VerifyBodies, FewExtraCalls)

NextVerify == ApiCaptchaVerify \/ CheckSolutionVerify

\* one challenge and the check_solution calls on it
SpecVerify == Init /\ [][NextVerify]_vars

\* POST /api/v5/captcha, once, with one of AlphabetRnds
ApiCaptchaDrawn ==
    /\ captcha_count = 0
    /\ \E json \in IssueBodies, rnd \in AlphabetRnds : Serve(ApiCaptchaFrame(json, rnd))

NextDrawn == ApiCaptchaDrawn

\* one api_captcha call whose solution starts with any character
SpecDrawn == Init /\ [][NextDrawn]_vars

\* the colours of a pixel: black, a grey, white
Colours == {<< 0, 0, 0 >>, << 128, 128, 128 >>, White}

\* the probabilities given to salt_and_pepper, in hundredths
Probabilities == {0, 5, 50, 100}

\* the arguments of one salt_and_pepper call
InitNoise ==
    /\ captcha_cdn = << >>
    /\ captchas_solution = << >>
    /\ captcha_count = 0
    /\ oids = 0
    /\ renders = << >>
    /\ frames = [t \in Threads |-> IdleFrame]
    /\ cdnHist = << >>
    /\ solHist = << >>
    /\ issueHist = [json |-> None, rnd |-> NoRnd, resp |-> NoResp]
    /\ accepted = 0
    /\ \E image \in [Pixels -> Colours], probability \in Probabilities :
         noise = [NoNoise EXCEPT !.image = image, !.probability = probability]

\* salt_and_pepper(image, probability) runs to its return
SaltAndPepperCall ==
    /\ noise.output_image = None
    /\ \E draws \in [Pixels -> NoiseChoices] :
         noise' = [noise EXCEPT
                      !.draws = draws,
                      !.output_image =
                          Some(SaltAndPepper(noise.image, noise.probability, draws))]
    /\ UNCHANGED << captcha_cdn, captchas_solution, captcha_count, oids, renders, frames,
                    cdnHist, solHist, issueHist, accepted >>

NextNoise == SaltAndPepperCall

\* one salt_and_pepper call on any image of Pixels
SpecNoise == InitNoise /\ [][NextNoise]_vars

\* ---------------------------------------------------------------- concurrent

\* thread t enters api_captcha
CallApiCaptcha(t) ==
    /\ frames[t].pc = "idle"
    /\ captcha_count < MaxIssues
    /\ \E json \in ConcBodies, rnd \in IssueRnds :
         frames' = [frames EXCEPT ![t] = ApiCaptchaFrame(json, rnd)]
    /\ accepted < MaxRequests
    /\ accepted' = accepted + 1
    /\ UNCHANGED << captcha_cdn, captchas_solution, captcha_count, oids, renders,
                    cdnHist, solHist, issueHist, noise >>

\* thread t enters get_img
CallGetImg(t) ==
    /\ frames[t].pc = "idle"
    /\ \E key \in CdnKeys :
         /\ MayCall(cdnHist, key, "max_cdn_access", FewExtraCalls)
         /\ frames' = [frames EXCEPT ![t] = GetImgFrame(key)]
    /\ accepted < MaxRequests
    /\ accepted' = accepted + 1
    /\ UNCHANGED << captcha_cdn, captchas_solution, captcha_count, oids, renders,
                    cdnHist, solHist, issueHist, noise >>

\* thread t enters check_solution
CallCheckSolution(t) ==
    /\ frames[t].pc = "idle"
    /\ \E solution_id \in SolutionKeys, json \in IssueAttempts :
         /\ MayCall(solHist, solution_id, "max_solution_check", FewExtraCalls)
         /\ frames' = [frames EXCEPT ![t] = CheckSolutionFrame(solution_id, json)]
    /\ accepted < MaxRequests
    /\ accepted' = accepted + 1
    /\ UNCHANGED << captcha_cdn, captchas_solution, captcha_count, oids, renders,
                    cdnHist, solHist, issueHist, noise >>

\* thread t runs one step of its handler
Step(t) ==
    /\ frames[t].pc # "idle"
    /\ \E s0 \in {Bundle(t)} : \E s1 \in {HandlerStep(s0)} : Commit(t, s0, s1)
    /\ UNCHANGED accepted

NextConc ==
    \E t \in Threads : CallApiCaptcha(t) \/ CallGetImg(t) \/ CallCheckSolution(t) \/ Step(t)

\* the handlers of NumThreads threads interleaved step by step
SpecConc == Init /\ [][NextConc]_vars

\* ---------------------------------------------------------------- claims

Min(a, b) == IF a <= b THEN a ELSE b

\* the outcomes of n calls on a handle of limit m, one after another: the first m
\* succeed, the next is Exhausted, the others are NotFound
InOrder(h, m) ==
    /\ h.ok = Min(h.calls, m)
    /\ h.exhausted = (IF h.calls > m THEN 1 ELSE 0)
    /\ h.notfound = (IF h.calls > m THEN h.calls - m - 1 ELSE 0)
    /\ h.invalid = 0
    /\ h.unhandled = 0

\* the solution record paired with cdn handle k was deleted by handler op
PairDeletedBy(k, op) ==
    LET sid == cdnHist[k].record.solution_id
    IN sid \in DOMAIN solHist /\ solHist[sid].deleted_by = op

\* C1: the get_img calls on a cdn handle whose paired solution record no
\* check_solution call deleted: the first max_cdn_access calls send the image, the
\* next returns 418, every later one 400 "cdn key not found"; and a challenge
\* issued with no request body has the limits 5 and 5.
C1_RetrieveUpToLimit ==
    /\ \A k \in DOMAIN cdnHist :
         ~PairDeletedBy(k, "check_solution")
             => InOrder(cdnHist[k], cdnHist[k].record.max_cdn_access)
    /\ (issueHist.json = None /\ issueHist.resp.code = 200)
         => /\ cdnHist[issueHist.resp.cdn_id].record.max_cdn_access = 5
            /\ solHist[issueHist.resp.solution_id].record.max_solution_check = 5

\* a challenge issued with no body had seven get_img calls: five images, one 418,
\* one 400
C1_Witness ==
    \E k \in DOMAIN cdnHist :
        /\ issueHist.json = None
        /\ ~PairDeletedBy(k, "check_solution")
        /\ cdnHist[k].calls = 7
        /\ cdnHist[k].ok = 5
        /\ cdnHist[k].exhausted = 1
        /\ cdnHist[k].notfound = 1

\* C2: the check_solution calls on a solution handle whose record no get_img call
\* deleted, each with a non-empty attempt: the first max_solution_check calls
\* return a comparison, the next returns 418 and deletes the record, every later
\* one returns 400 "solution_id not found".
C2_VerifyUpToLimit ==
    \A k \in DOMAIN solHist :
        (solHist[k].deleted_by # "get_img" /\ solHist[k].invalid = 0)
            => /\ InOrder(solHist[k], solHist[k].record.max_solution_check)
               /\ k \in DOMAIN captchas_solution
                    <=> solHist[k].calls <= solHist[k].record.max_solution_check

\* a solution handle of limit 5 had seven calls with an attempt: five comparisons,
\* one 418 that deleted the record, one 400
C2_Witness ==
    \E k \in DOMAIN solHist :
        /\ solHist[k].record.max_solution_check = 5
        /\ solHist[k].deleted_by = "check_solution"
        /\ solHist[k].invalid = 0
        /\ solHist[k].calls = 7
        /\ solHist[k].ok = 5
        /\ solHist[k].exhausted = 1
        /\ solHist[k].notfound = 1
        /\ k \notin DOMAIN captchas_solution

\* C3: interleaved get_img calls never send the image of one record more than
\* max_cdn_access times.
C3_NoOverServe ==
    \A k \in DOMAIN cdnHist : cdnHist[k].ok <= cdnHist[k].record.max_cdn_access

\* C4: interleaved check_solution calls never compare an attempt with one record's
\* solution more than max_solution_check times.
C4_NoOverCheck ==
    \A k \in DOMAIN solHist : solHist[k].ok <= solHist[k].record.max_solution_check

\* the limits api_captcha is asked for by request body json
RequestedLimits(json) ==
    LET data == IF json = None THEN << >> ELSE json[1]
    IN << Get(data, "maxCdnAccess", 5), Get(data, "maxSolutionCheck", 5) >>

\* the state and response handler frame fr gives when served in the current state
Served(fr) == RunHandler([Bundle(1) EXCEPT !.fr = fr])

C6_DistinctHandles ==
    LET lim == RequestedLimits(issueHist.json)
    IN (issueHist.resp # NoResp /\ lim[1] \in 1 .. 19 /\ lim[2] \in 1 .. 19)
         => /\ issueHist.resp.code = 200
            /\ issueHist.resp.solution_id # issueHist.resp.cdn_id

\* C7: in every state, get_img on an image record at its limit removes that record
\* and its paired solution record, and check_solution on a solution record at its
\* limit removes that record and leaves the image table as it is.
C7_CascadeOneWay ==
    /\ \A k \in DOMAIN captcha_cdn :
         captcha_cdn[k].cdn_accessed_number >= captcha_cdn[k].max_cdn_access
             => \A s1 \in {Served(GetImgFrame(k))} :
                    /\ k \notin DOMAIN s1.cdn
                    /\ captcha_cdn[k].solution_id \notin DOMAIN s1.sol
    /\ \A k \in DOMAIN captchas_solution, json \in IssueAttempts :
         captchas_solution[k].solution_checked >= captchas_solution[k].max_solution_check
             => \A s1 \in {Served(CheckSolutionFrame(k, json))} :
                    /\ k \notin DOMAIN s1.sol
                    /\ s1.cdn = captcha_cdn

\* C8: in every state, get_img on an image record at its limit deletes the record
\* and returns 418, whether or not the paired solution record is still stored.
C8_ExhaustedAtLimit ==
    \A k \in DOMAIN captcha_cdn :
        captcha_cdn[k].cdn_accessed_number >= captcha_cdn[k].max_cdn_access
            => \A s1 \in {Served(GetImgFrame(k))} :
                   /\ s1.fr.resp = CdnExhausted
                   /\ k \notin DOMAIN s1.cdn

RECURSIVE Replay(_, _, _, _)
\* n get_img calls on key, one after another, from tables cdn and sol, with no
\* other call between them: the image table and the history of key at the end
Replay(s, h, key, n) ==
    IF n = 0 THEN [cdn |-> s.cdn, hist |-> h]
    ELSE LET s0 == [s EXCEPT !.fr = GetImgFrame(key)]
             s1 == RunHandler(s0)
         IN Replay([s1 EXCEPT !.fr = IdleFrame],
                   History(h, s0.cdn, s1.cdn, s0, s1, "get_img"), key, n - 1)

\* the run in which the challenge of cdn handle k is issued as it was and receives
\* the get_img calls it received, and no check_solution call
WithoutVerify(k) ==
    LET sid == cdnHist[k].record.solution_id
    IN Replay([cdn |-> (k :> cdnHist[k].record),
               sol |-> (sid :> solHist[sid].record),
               count |-> captcha_count, oids |-> oids, renders |-> << >>,
               fr |-> IdleFrame],
              (k :> NewHistory(cdnHist[k].record)), k, cdnHist[k].calls)

\* C9: the get_img calls on a cdn handle return what they return in the run with
\* the same get_img calls and no check_solution call, and leave the same image
\* record.
C9_VerifyDoesNotAffectRetrieve ==
    \A k \in DOMAIN cdnHist :
        \A r \in {WithoutVerify(k)} :
            /\ cdnHist[k] = r.hist[k]
            /\ k \in DOMAIN captcha_cdn <=> k \in DOMAIN r.cdn
            /\ k \in DOMAIN captcha_cdn => captcha_cdn[k] = r.cdn[k]

\* C10: a stored image record has an image exactly when a get_img call on it has
\* succeeded; get_img on a record with an image sends that image; and no step
\* gives a stored record that has an image another image.
C10_ImageMemoized ==
    /\ [](\A k \in DOMAIN captcha_cdn :
            /\ captcha_cdn[k].image = None <=> cdnHist[k].ok = 0
            /\ (/\ captcha_cdn[k].image # None
                /\ captcha_cdn[k].cdn_accessed_number < captcha_cdn[k].max_cdn_access)
                 => Served(GetImgFrame(k)).fr.resp = SendFile(captcha_cdn[k].image[1]))
    /\ [][\A k \in DOMAIN captcha_cdn \cap DOMAIN captcha_cdn' :
            captcha_cdn[k].image # None => captcha_cdn'[k].image = captcha_cdn[k].image]_vars

\* a stored record sent its image twice and may send it again
C10_Witness ==
    \E k \in DOMAIN captcha_cdn :
        /\ cdnHist[k].ok >= 2
        /\ captcha_cdn[k].image # None
        /\ captcha_cdn[k].cdn_accessed_number < captcha_cdn[k].max_cdn_access

\* strings a and b are the same up to the case of their letters
SameLetters(a, b) ==
    /\ Len(a) = Len(b)
    /\ \A i \in 1 .. Len(a) :
         \/ a[i] = b[i]
         \/ a[i] \in 65 .. 90 /\ b[i] = a[i] + 32
         \/ a[i] \in 97 .. 122 /\ b[i] = a[i] - 32

\* C11: in every state, check_solution on a stored record below its limit, with a
\* non-empty attempt, returns 200 with case_sensitive_correct true exactly when the
\* attempt is the stored solution and case_insensitive_correct true exactly when
\* the two are the same up to letter case; (true, false) is never returned.
C11_ComparisonFlags ==
    \A k \in DOMAIN captchas_solution, a \in AttemptTexts :
        captchas_solution[k].solution_checked < captchas_solution[k].max_solution_check
            => \A r \in {Served(CheckSolutionFrame(k, OneField("attempt", Some(a)))).fr.resp} :
                   /\ r.code = 200
                   /\ r.case_sensitive_correct <=> a = captchas_solution[k].solution
                   /\ r.case_insensitive_correct
                        <=> SameLetters(a, captchas_solution[k].solution)
                   /\ ~(r.case_sensitive_correct /\ ~r.case_insensitive_correct)

\* a record with the solution "Aaaaa" was compared once and may be compared again:
\* "Aaaaa" gives (true, true), "aaaaa" (false, true), "baaa" (false, false)
C11_Witness ==
    \E k \in DOMAIN captchas_solution :
        /\ solHist[k].ok = 1
        /\ captchas_solution[k].solution_checked < captchas_solution[k].max_solution_check
        /\ captchas_solution[k].solution = << 65, 97, 97, 97, 97 >>
        /\ LET Reply(a) == Served(CheckSolutionFrame(k, OneField("attempt", Some(a)))).fr.resp
           IN /\ Reply(<< 65, 97, 97, 97, 97 >>).case_sensitive_correct
              /\ Reply(<< 65, 97, 97, 97, 97 >>).case_insensitive_correct
              /\ ~Reply(<< 97, 97, 97, 97, 97 >>).case_sensitive_correct
              /\ Reply(<< 97, 97, 97, 97, 97 >>).case_insensitive_correct
              /\ ~Reply(<< 98, 97, 97, 97 >>).case_sensitive_correct
              /\ ~Reply(<< 98, 97, 97, 97 >>).case_insensitive_correct

\* C12: with requests served one after another, every stored image record has
\* 0 <= cdn_accessed_number <= max_cdn_access and every stored solution record has
\* 0 <= solution_checked <= max_solution_check, both limits being in 1..19.
C12_CountsWithinLimits ==
    /\ \A k \in DOMAIN captcha_cdn :
         /\ captcha_cdn[k].max_cdn_access \in 1 .. 19
         /\ captcha_cdn[k].cdn_accessed_number \in 0 .. captcha_cdn[k].max_cdn_access
    /\ \A k \in DOMAIN captchas_solution :
         /\ captchas_solution[k].max_solution_check \in 1 .. 19
         /\ captchas_solution[k].solution_checked
              \in 0 .. captchas_solution[k].max_solution_check

\* an image record of limit 19 was sent 19 times and is stored, and so is its
\* solution record, compared as often as its limit allows
C12_Witness ==
    \E k \in DOMAIN captcha_cdn :
        /\ captcha_cdn[k].max_cdn_access = 19
        /\ captcha_cdn[k].cdn_accessed_number = 19
        /\ cdnHist[k].ok = 19
        /\ captcha_cdn[k].solution_id \in DOMAIN captchas_solution
        /\ LET r == captchas_solution[captcha_cdn[k].solution_id]
           IN r.solution_checked = r.max_solution_check

\* C13: no step stores a record again under a cdn handle or a solution handle whose
\* record was deleted.
C13_DeletedIsTerminal ==
    [][/\ \A k \in DOMAIN cdnHist :
            k \notin DOMAIN captcha_cdn => k \notin DOMAIN captcha_cdn'
       /\ \A k \in DOMAIN solHist :
            k \notin DOMAIN captchas_solution => k \notin DOMAIN captchas_solution']_vars

\* C14: interleaved get_img calls call cap_gen at most once for one cdn handle.
C14_RenderedOnce == \A k \in DOMAIN renders : renders[k] <= 1

\* request bodies of POST /check with no attempt and with the attempt ""
NoAttempt == {Some(<< >>), OneField("attempt", Some(<< >>))}

\* C15: in every state, check_solution on a stored record below its limit, with no
\* attempt or an empty one, returns 400 "attempt not found" and adds exactly one to
\* the record's solution_checked, changing nothing else; counted together, calls
\* with and without an attempt use up the limit: the call after max_solution_check
\* of them returns 418.
C15_EmptyAttemptCounts ==
    /\ \A k \in DOMAIN captchas_solution, json \in NoAttempt :
         captchas_solution[k].solution_checked < captchas_solution[k].max_solution_check
             => \A s1 \in {Served(CheckSolutionFrame(k, json))} :
                    /\ s1.fr.resp = AttemptNotFound
                    /\ s1.sol = [captchas_solution EXCEPT
                                    ![k].solution_checked = captchas_solution[k].solution_checked + 1]
                    /\ s1.cdn = captcha_cdn
    /\ \A k \in DOMAIN solHist :
         solHist[k].deleted_by # "get_img"
             => LET h == solHist[k]
                    m == h.record.max_solution_check
                IN /\ h.ok + h.invalid = Min(h.calls, m)
                   /\ h.exhausted = (IF h.calls > m THEN 1 ELSE 0)
                   /\ k \in DOMAIN captchas_solution
                        => captchas_solution[k].solution_checked = h.ok + h.invalid

\* a record of limit 5 had five calls without an attempt and none with one; the
\* sixth call returned 418 and deleted it
C15_Witness ==
    \E k \in DOMAIN solHist :
        /\ solHist[k].record.max_solution_check = 5
        /\ solHist[k].invalid = 5
        /\ solHist[k].ok = 0
        /\ solHist[k].exhausted = 1
        /\ solHist[k].deleted_by = "check_solution"
        /\ k \notin DOMAIN captchas_solution

\* request bodies of POST /captcha with allowed limits: no body, the smallest and
\* the largest limits
ValidBodies == {None, LimitBody(1, 19), LimitBody(19, 1)}

\* draws of one api_captcha call with the solutions "aaaa" and "Aaaaa"
EffectRnds == IssueRnds \cup {r \in VerifyRnds : Len(r.sol) = 5 /\ r.sol[1] = 26}

\* C16: in every state reached by requests served one after another, api_captcha
\* with allowed limits returns 200 and two handles neither table holds, stores under
\* the cdn handle one image record (no image, count 0, the image limit asked for,
\* the solution handle returned) and under the solution handle one solution record
\* (count 0, the solution limit asked for, the same solution), leaves every other
\* record as it is and adds one to captcha_count; and no step changes the solution
\* of a stored record.
C16_IssueEffect ==
    /\ [](\A json \in ValidBodies, rnd \in EffectRnds :
            \A s1 \in {Served(ApiCaptchaFrame(json, rnd))} :
                LET cid == s1.fr.resp.cdn_id
                    sid == s1.fr.resp.solution_id
                IN /\ s1.fr.resp.code = 200
                   /\ cid \notin DOMAIN captcha_cdn
                   /\ sid \notin DOMAIN captchas_solution
                   /\ DOMAIN s1.cdn = DOMAIN captcha_cdn \cup {cid}
                   /\ DOMAIN s1.sol = DOMAIN captchas_solution \cup {sid}
                   /\ \A k \in DOMAIN captcha_cdn : s1.cdn[k] = captcha_cdn[k]
                   /\ \A k \in DOMAIN captchas_solution : s1.sol[k] = captchas_solution[k]
                   /\ s1.cdn[cid].image = None
                   /\ s1.cdn[cid].cdn_accessed_number = 0
                   /\ s1.cdn[cid].max_cdn_access = RequestedLimits(json)[1]
                   /\ s1.cdn[cid].solution_id = sid
                   /\ s1.sol[sid].solution_checked = 0
                   /\ s1.sol[sid].max_solution_check = RequestedLimits(json)[2]
                   /\ s1.sol[sid].solution = s1.cdn[cid].solution
                   /\ s1.sol[sid].solution = IdGenerator(Len(rnd.sol), rnd.sol)
                   /\ s1.count = captcha_count + 1)
    /\ [][/\ \A k \in DOMAIN captcha_cdn \cap DOMAIN captcha_cdn' :
               captcha_cdn'[k].solution = captcha_cdn[k].solution
          /\ \A k \in DOMAIN captchas_solution \cap DOMAIN captchas_solution' :
               captchas_solution'[k].solution = captchas_solution[k].solution]_vars

\* the second api_captcha call stored its two records beside those of the first,
\* whose image had been sent
C16_Witness ==
    /\ issueHist.resp.code = 200
    /\ captcha_count = 2
    /\ Cardinality(DOMAIN captcha_cdn) = 2
    /\ Cardinality(DOMAIN captchas_solution) = 2
    /\ captcha_cdn[issueHist.resp.cdn_id].cdn_accessed_number = 0
    /\ captcha_cdn[issueHist.resp.cdn_id].solution_id = issueHist.resp.solution_id
    /\ \E k \in DOMAIN captcha_cdn : captcha_cdn[k].image # None

\* C17: with api_captcha handlers interleaved, every step in which one of them
\* returns its two handles leaves captcha_count one larger than it was, so that
\* captcha_count counts the calls that succeeded.
C17_CountsIssues ==
    [][\A t \in Threads :
         (frames[t].pc = "a163w" /\ frames'[t].pc = "idle")
             => captcha_count' = captcha_count + 1]_vars

\* C18: with handlers interleaved, no get_img call and no check_solution call on an
\* issued handle ends in an exception the handler does not catch.
C18_NoUnhandledFailure ==
    /\ \A k \in DOMAIN cdnHist : cdnHist[k].unhandled = 0
    /\ \A k \in DOMAIN solHist : solHist[k].unhandled = 0

\* the characters of a string
Chars(s) == {s[i] : i \in 1 .. Len(s)}

\* the codes of "l", "1", "I", "0" and "O"
Ambiguous == {108, 49, 73, 48, 79}

\* the strings _id_generator returned in the last api_captcha call: the two salts
\* and the solution, each with the length asked for
Generated ==
    IF issueHist.resp.code # 200 THEN {}
    ELSE {[y |-> 10, s |-> IdGenerator(10, issueHist.rnd.id1)],
          [y |-> 10, s |-> IdGenerator(10, issueHist.rnd.id2)],
          [y |-> Len(issueHist.rnd.sol),
           s |-> captchas_solution[issueHist.resp.solution_id].solution]}

\* C19: the sequence string of _id_generator has exactly 50 distinct characters,
\* none of them "l", "1", "I", "0" or "O", and every string _id_generator returns
\* has the length asked for and only characters of the sequence string.
C19_FiftyUnambiguous ==
    /\ Cardinality(Chars(IdAlphabet)) = 50
    /\ Chars(IdAlphabet) \cap Ambiguous = {}
    /\ \A g \in Generated : Len(g.s) = g.y /\ Chars(g.s) \subseteq Chars(IdAlphabet)

\* C19, amended: the sequence string of _id_generator has exactly 49 distinct
\* characters, the 52 letters without "l", "I" and "L": it has "o" and "O" and no
\* digit; every string _id_generator returns has the length asked for and only
\* characters of the sequence string.
C19_FortyNineLetters ==
    /\ Len(IdAlphabet) = 49
    /\ Cardinality(Chars(IdAlphabet)) = 49
    /\ Chars(IdAlphabet) = ((65 .. 90) \cup (97 .. 122)) \ {108, 73, 76}
    /\ \A g \in Generated :
         /\ Len(g.s) = g.y
         /\ Chars(g.s) \subseteq Chars(IdAlphabet)
         /\ Chars(g.s) \cap {108, 73, 76, 48, 49} = {}

\* api_captcha stored a solution of five characters that starts with "O"
C19_Witness ==
    /\ issueHist.resp.code = 200
    /\ \E g \in Generated : g.y = 5 /\ Len(g.s) = 5 /\ g.s[1] = 79

\* C20: the image salt_and_pepper returns has the size of its argument and every
\* pixel of it is white or the argument's pixel at the same place; with probability
\* 0 it is the argument, and with probability 1 it is all white, whatever is drawn.
C20_SaltAndPepper ==
    noise.output_image # None
        => LET out == noise.output_image[1]
           IN /\ DOMAIN out = DOMAIN noise.image
              /\ \A xy \in DOMAIN out : out[xy] \in {White, noise.image[xy]}
              /\ noise.probability = 0 => out = noise.image
              /\ noise.probability = 100 => \A xy \in DOMAIN out : out[xy] = White

====
